---- MODULE Spec2Model ----
(***************************************************************************)
(* Model of analyze.py, the event-log analysis pipeline of process-detector.*)
(*                                                                         *)
(* One run of the script is a sequence of steps (pc) over the script's     *)
(* module-level variables; the three JSON files it reads and writes        *)
(* (metrics_history.json, last_metrics.json, previous_metrics.json)        *)
(* outlive the run.                                                        *)
(*                                                                         *)
(* Numbers.  Timestamps are whole ticks of half an hour.  The columns      *)
(* duration_hours, baseline_hours and impact_hours are held in units of a  *)
(* quarter of an hour (HourUnits units = 1 hour), so that the median of    *)
(* two durations is again a whole number of units.  Every other real       *)
(* (hours, euros, percentages, the monthly factor) is an exact fraction    *)
(* [n, d] in lowest terms; Python's float rounding of intermediate         *)
(* products is not modelled, round() is round-half-to-even.                *)
(***************************************************************************)
EXTENDS Integers, Sequences, FiniteSets, TLC

(* ------------------------------ bounds -------------------------------- *)
MaxRows == 4
MaxRuns == 3

(* ------------------------- units and null values ----------------------- *)
HourUnits == 4
TickUnits == 2
NaT == -1
NullCase == 0
Null == "NaN"

(* ------------------------------ fractions ------------------------------ *)
RECURSIVE GCD(_, _)
GCD(a, b) == IF b = 0 THEN a ELSE GCD(b, a % b)

Abs(x) == IF x < 0 THEN -x ELSE x

Frac(n, d) ==
    LET g == GCD(Abs(n), d)
    IN  IF n = 0 THEN [n |-> 0, d |-> 1] ELSE [n |-> n \div g, d |-> d \div g]

FZero == [n |-> 0, d |-> 1]
FInt(i) == [n |-> i, d |-> 1]
FMul(a, b) == Frac(a.n * b.n, a.d * b.d)
FDiv(a, b) == Frac(a.n * b.d, a.d * b.n)
FSub(a, b) == Frac(a.n * b.d - b.n * a.d, a.d * b.d)
FLt(a, b) == a.n * b.d < b.n * a.d
FGe(a, b) == ~FLt(a, b)
FGt(a, b) == FLt(b, a)

\* Python round(): nearest, ties to even.  Round(x, k) keeps k decimals.
RoundHalfEven(n, d) ==
    LET q == n \div d
        r == n % d
    IN  IF 2 * r < d THEN q
        ELSE IF 2 * r > d THEN q + 1
        ELSE IF q % 2 = 0 THEN q ELSE q + 1

Round0(x) == FInt(RoundHalfEven(x.n, x.d))
Round1(x) == Frac(RoundHalfEven(10 * x.n, x.d), 10)

(* --------------------------- sequence helpers -------------------------- *)
RECURSIVE SumSeq(_)
SumSeq(s) == IF s = <<>> THEN 0 ELSE s[1] + SumSeq(Tail(s))

MapSeq(s, Op(_)) == [i \in 1..Len(s) |-> Op(s[i])]

Range(s) == {s[i] : i \in 1..Len(s)}

MinOfSet(S) == CHOOSE x \in S : \A y \in S : x <= y

RECURSIVE InsertInt(_, _)
InsertInt(s, x) ==
    IF s = <<>> THEN <<x>>
    ELSE IF s[Len(s)] <= x THEN Append(s, x)
    ELSE Append(InsertInt(SubSeq(s, 1, Len(s) - 1), x), s[Len(s)])

RECURSIVE SortInts(_)
SortInts(s) ==
    IF s = <<>> THEN <<>>
    ELSE InsertInt(SortInts(SubSeq(s, 1, Len(s) - 1)), s[Len(s)])

(* ---------------------- inputs: events.csv and rate -------------------- *)
Cases == {1, 2}
Times == {0, 1, 2, 20}
Events == {"created", "resolved"}
Rates == {0, 100}

GoodRows == [case_id : Cases, timestamp : Times, event : Events]
BadRows == {[case_id |-> 1, timestamp |-> NaT, event |-> "created"],
            [case_id |-> NullCase, timestamp |-> 0, event |-> "created"],
            [case_id |-> 1, timestamp |-> 0, event |-> Null]}
Rows == GoodRows \cup BadRows

\* The order of the rows of events.csv matters to the script only among rows
\* of the same case and timestamp (the rows are sorted by case and timestamp,
\* and the sort is stable).  The logs are therefore listed newest first, in
\* every order of the rows that share a case and a timestamp: each multiset
\* of rows occurs, unsorted, with every order the sort can tell apart.
NewestFirst(a, b) ==
    \/ a.timestamp > b.timestamp
    \/ a.timestamp = b.timestamp /\ a.case_id >= b.case_id

IsNewestFirst(t) == \A i \in 1..(Len(t) - 1) : NewestFirst(t[i], t[i + 1])

Logs == UNION {{t \in [1..n -> Rows] : IsNewestFirst(t)} : n \in 0..MaxRows}

\* A family of well-formed logs for the runs over time: k cases walk through
\* the first n labels of TrendLabels; cases 1..k-1 take one tick per step,
\* case k (when k > 1) takes g ticks per step.
TrendLabels == <<"created", "waiting", "resolved", "closed">>
TrendLens == {2, 4}
TrendGaps == {2}
TrendSizes == {1, 2, 3}

TrendCase(c, n, g) ==
    [i \in 1..n |-> [case_id |-> c, timestamp |-> (i - 1) * g, event |-> TrendLabels[i]]]

RECURSIVE TrendLog(_, _, _)
TrendLog(k, n, g) ==
    IF k = 1 THEN TrendCase(1, n, 1)
    ELSE TrendCase(k, n, g) \o TrendLog(k - 1, n, 1)

TrendLogs == {TrendLog(k, n, g) : k \in TrendSizes, n \in TrendLens, g \in TrendGaps}

\* Tickets that walk through all four labels: case 1 takes one tick per
\* step, case 2 takes a number of ticks of StepGaps for each of its steps, so
\* that each of the three SLA types has its own breach hours.
StepGaps == {1, 2, 4}

StepCase(c, gaps) ==
    [i \in 1..4 |-> [case_id |-> c, timestamp |-> SumSeq(SubSeq(gaps, 1, i - 1)),
                     event |-> TrendLabels[i]]]

StepLogs == {StepCase(1, <<1, 1, 1>>) \o StepCase(2, g) : g \in [1..3 -> StepGaps]}

\* Labels as help desks write them: capitals, a keyword inside a longer
\* word, two keywords in one label, and labels without any keyword.
OddLabels == {"Waiting, resolved", "CLOSED", "closed response", "Unassigned", "note", "wait"}

\* one ticket of two or three rows, one tick apart, with odd labels
LabelCase(ls) ==
    [i \in 1..Len(ls) |-> [case_id |-> 1, timestamp |-> i - 1, event |-> ls[i]]]

LabelLogs == {LabelCase(ls) : ls \in [1..2 -> OddLabels] \cup [1..3 -> OddLabels]}

\* Tickets with two steps of the same SLA type (resolved, then closed):
\* case 1 takes one tick per step, case 2 a number of ticks of StepGaps.
RiskLabels == <<"resolved", "closed", "note">>

RiskCase(c, gaps) ==
    [i \in 1..3 |-> [case_id |-> c, timestamp |-> SumSeq(SubSeq(gaps, 1, i - 1)),
                     event |-> RiskLabels[i]]]

RiskLogs == {RiskCase(1, <<1, 1>>) \o RiskCase(2, g) : g \in [1..2 -> StepGaps]}

Uploads == Logs \cup StepLogs \cup LabelLogs \cup RiskLogs

\* The uploads that reach the script through the endpoint: the endpoint
\* refuses a rate <= 0 (app.py line 405).
Emails == {"a@example.org", "b@example.org"}
AppRates == {r \in Rates : r > 0}
AppLogs == {TrendLog(k, 4, 2) : k \in TrendSizes}

\* the header lines of the uploads: the canonical names, synonyms next to a
\* column the script does not use, and headers that lack a required column
CanonicalHeader == {"case_id", "timestamp", "event"}
Headers == {CanonicalHeader,
            {"ticket_id", "date", "status", "agent"},
            {"case_id", "timestamp"},
            {"order_id", "action"},
            {"id", "when", "what"}}

(* ------------------------------- state --------------------------------- *)
VARIABLES
    csv,                \* uploads/events.csv: the rows of the upload
    eur_per_hour,       \* sys.argv[1]
    clock,              \* the run's generated_at (one tick per run)
    pc,                 \* position of the run in the script
    df,                 \* the data frame, as a sequence of rows
    period,             \* [start, end, hours], can_extrapolate
    baseline,           \* event label -> baseline_hours
    totals,             \* total_impact_hours, total_impact_eur
    impact,             \* the management metrics (month, year, FTE, saving)
    current_metrics,    \* the snapshot being built
    sla_by_type,        \* SLA type -> steps, breaches, compliance, risk
    history,            \* the list loaded from and saved to the history file
    sla_trend_by_type,  \* SLA type -> change against the previous snapshot
    upgrade_signals,    \* every signal generated, before the cap
    ai_advice,          \* the advisory items, ranked
    historyFile,        \* data/metrics_history.json   (<<>> = no file)
    lastFile,           \* uploads/last_metrics.json    (<<>> = no file)
    prevFile,           \* uploads/previous_metrics.json
    pdfFiles,           \* the reports written to uploads/
    startFiles,         \* the three metrics files as the run found them
    columns,            \* the header line of events.csv
    stderr,             \* the error the script ended with (<<>> = none)
    email,              \* the tenant of the upload request
    tenants,            \* data/tenants.json: email -> usage and history
    response,           \* the response of the upload request (<<>> = none yet)
    startTenants,       \* tenants.json as the request found it
    runs,               \* analyses running at the same time, at the history step
    requests,           \* upload requests being served at the same time
    month               \* _current_month_key(): the calendar month

files == <<historyFile, lastFile, prevFile, pdfFiles>>
locals == <<df, period, baseline, totals, impact, current_metrics, sla_by_type,
            history, sla_trend_by_type, upgrade_signals, ai_advice>>
app == <<columns, stderr, email, tenants, response, startTenants, runs, requests, month>>
vars == <<csv, eur_per_hour, clock, pc, locals, files, startFiles, app>>

(* -------------------- column normalisation (141-158) ------------------- *)
COLUMN_ALIASES ==
    [case_id |-> <<"case_id", "case", "caseid", "ticket_id", "order_id">>,
     timestamp |-> <<"timestamp", "time", "datetime", "date">>,
     event |-> <<"event", "activity", "step", "status", "action", "event_name">>]

\* the first synonym of a canonical field among the columns, per field that
\* has one
normalized(cols) ==
    [c \in {f \in DOMAIN COLUMN_ALIASES :
                \E i \in 1..Len(COLUMN_ALIASES[f]) : COLUMN_ALIASES[f][i] \in cols} |->
        COLUMN_ALIASES[c][MinOfSet({i \in 1..Len(COLUMN_ALIASES[c]) :
                                        COLUMN_ALIASES[c][i] \in cols})]]

\* (the event column taken as optional)
missing_event_optional(cols) ==
    (DOMAIN COLUMN_ALIASES \ DOMAIN normalized(cols)) \ {"event"}

missing(cols) == DOMAIN COLUMN_ALIASES \ DOMAIN normalized(cols)

(* ------------------------- cleanup + sort (164-166) -------------------- *)
dropna(s) ==
    SelectSeq(s, LAMBDA r : r.timestamp # NaT /\ r.case_id # NullCase /\ r.event # Null)

RowLeq(a, b) ==
    \/ a.case_id < b.case_id
    \/ a.case_id = b.case_id /\ a.timestamp <= b.timestamp

RECURSIVE InsertRow(_, _)
InsertRow(s, r) ==
    IF s = <<>> THEN <<r>>
    ELSE IF RowLeq(s[Len(s)], r) THEN Append(s, r)
    ELSE Append(InsertRow(SubSeq(s, 1, Len(s) - 1), r), s[Len(s)])

\* df.sort_values(["case_id", "timestamp"]): a stable lexicographic sort
RECURSIVE sort_values(_)
sort_values(s) ==
    IF s = <<>> THEN <<>>
    ELSE InsertRow(sort_values(SubSeq(s, 1, Len(s) - 1)), s[Len(s)])

(* ------------------------------ period (172-179) ----------------------- *)
MinOf(S) == CHOOSE x \in S : \A y \in S : x <= y
MaxOf(S) == CHOOSE x \in S : \A y \in S : y <= x

period_start(s) == IF s = <<>> THEN NaT ELSE MinOf({s[i].timestamp : i \in 1..Len(s)})
period_end(s) == IF s = <<>> THEN NaT ELSE MaxOf({s[i].timestamp : i \in 1..Len(s)})

period_hours(s) ==
    IF period_start(s) # NaT /\ period_end(s) # NaT
    THEN Frac(TickUnits * (period_end(s) - period_start(s)), HourUnits)
    ELSE FZero

MIN_PERIOD_HOURS == FInt(1)

\* (a guard against a zero divisor only)
CanExtrapolate_positive(hours) == FGt(hours, FZero)

CanExtrapolate(hours) == FGe(hours, MIN_PERIOD_HOURS)

(* ------------------------ duration per step (185-189) ------------------ *)
\* (a shift over the whole frame, without the groupby)
next_timestamp_ungrouped(s, i) ==
    IF i < Len(s) THEN s[i + 1].timestamp ELSE NaT

\* df.groupby("case_id")["timestamp"].shift(-1): the timestamp of the next
\* row of the same case, NaT for the last row of a case
next_timestamp(s, i) ==
    IF i < Len(s) /\ s[i + 1].case_id = s[i].case_id THEN s[i + 1].timestamp ELSE NaT

\* (next_timestamp - timestamp) in hours; NaT propagates, so the value of a
\* row without a next timestamp is NaN, which isna_duration recognises
duration_hours(r) == TickUnits * (r.next_timestamp - r.timestamp)

isna_duration(r) == r.next_timestamp = NaT

with_durations(s) ==
    [i \in 1..Len(s) |->
        LET r == [case_id |-> s[i].case_id, timestamp |-> s[i].timestamp,
                  event |-> s[i].event, next_timestamp |-> next_timestamp(s, i)]
        IN  r @@ [duration_hours |-> duration_hours(r)]]

steps_of(s) ==
    SelectSeq(SelectSeq(with_durations(s), LAMBDA r : ~isna_duration(r)),
              LAMBDA r : r.duration_hours >= 0)

(* ------------------------ baseline + delays (195-217) ------------------ *)
DurationsOf(s, e) ==
    MapSeq(SelectSeq(s, LAMBDA r : r.event = e), LAMBDA r : r.duration_hours)

\* pandas median: the middle value, or the mean of the two middle values
\* (the lower of the two middle values for an even count)
median_low(ds) ==
    LET o == SortInts(ds)
    IN  o[(Len(o) + 1) \div 2]

median(ds) ==
    LET o == SortInts(ds)
        n == Len(o)
    IN  IF n % 2 = 1 THEN o[(n + 1) \div 2]
        ELSE (o[n \div 2] + o[n \div 2 + 1]) \div 2

baseline_of(s) == [e \in {s[i].event : i \in 1..Len(s)} |-> median(DurationsOf(s, e))]

DELAY_MULT == [n |-> 3, d |-> 2]
BREACH_MULT == [n |-> 6, d |-> 5]

\* duration_hours > mult * baseline_hours
Exceeds(dur, mult, base) == dur * mult.d > mult.n * base

\* (the delay test with the breach multiplier)
is_delay_breach_mult(dur, base) == Exceeds(dur, BREACH_MULT, base)

\* (the delay test with >= instead of >)
is_delay_or_equal(dur, base) == dur * DELAY_MULT.d >= DELAY_MULT.n * base

is_delay(dur, base) == Exceeds(dur, DELAY_MULT, base)

\* (duration_hours - baseline_hours).clip(lower=0)
impact_hours(dur, base) == IF dur - base < 0 THEN 0 ELSE dur - base

with_delays(s, b) ==
    [i \in 1..Len(s) |->
        s[i] @@ [baseline_hours |-> b[s[i].event],
                 is_delay |-> is_delay(s[i].duration_hours, b[s[i].event]),
                 impact_hours |-> impact_hours(s[i].duration_hours, b[s[i].event])]]

delays_of(s) == SelectSeq(s, LAMBDA r : r.is_delay)

total_impact_hours(s) ==
    Frac(SumSeq(MapSeq(delays_of(s), LAMBDA r : r.impact_hours)), HourUnits)

total_impact_eur(s, rate) ==
    IF rate > 0
    THEN Frac(SumSeq(MapSeq(delays_of(s), LAMBDA r : r.impact_hours * rate)), HourUnits)
    ELSE FZero

(* ----------------------- management metrics (223-237) ------------------ *)
MONTH_HOURS == FInt(30 * 24)
FTE_HOURS_PER_MONTH == FInt(160)
improve_pct == Frac(20, 100)

monthly_factor(hours) ==
    IF CanExtrapolate(hours) THEN FDiv(MONTH_HOURS, hours) ELSE FZero

\* (the hour estimates guarded by the rate, as the euro estimates are)
management_rate_guarded(th, te, hours, rate) ==
    LET can == CanExtrapolate(hours) /\ rate > 0
        mf == monthly_factor(hours)
        monthly_hours_est == IF can THEN FMul(th, mf) ELSE FZero
        monthly_eur_est == IF can THEN FMul(te, mf) ELSE FZero
    IN  [total_hours |-> th,
         total_eur |-> te,
         monthly_hours_est |-> monthly_hours_est,
         monthly_eur_est |-> monthly_eur_est,
         yearly_hours_est |-> IF can THEN FMul(monthly_hours_est, FInt(12)) ELSE FZero,
         yearly_eur_est |-> IF can THEN FMul(monthly_eur_est, FInt(12)) ELSE FZero,
         fte_equivalent |->
            IF can THEN FDiv(monthly_hours_est, FTE_HOURS_PER_MONTH) ELSE FZero,
         potential_saving_hours |->
            IF can THEN FMul(monthly_hours_est, improve_pct) ELSE FZero,
         potential_saving_eur |->
            IF can THEN FMul(monthly_eur_est, improve_pct) ELSE FZero]

management(th, te, hours, rate) ==
    LET can == CanExtrapolate(hours)
        mf == monthly_factor(hours)
        monthly_hours_est == IF can THEN FMul(th, mf) ELSE FZero
        monthly_eur_est == IF can /\ rate > 0 THEN FMul(te, mf) ELSE FZero
    IN  [total_hours |-> th,
         total_eur |-> te,
         monthly_hours_est |-> monthly_hours_est,
         monthly_eur_est |-> monthly_eur_est,
         yearly_hours_est |-> IF can THEN FMul(monthly_hours_est, FInt(12)) ELSE FZero,
         yearly_eur_est |-> IF can THEN FMul(monthly_eur_est, FInt(12)) ELSE FZero,
         fte_equivalent |->
            IF can THEN FDiv(monthly_hours_est, FTE_HOURS_PER_MONTH) ELSE FZero,
         potential_saving_hours |->
            IF can THEN FMul(monthly_hours_est, improve_pct) ELSE FZero,
         potential_saving_eur |->
            IF can /\ rate > 0 THEN FMul(monthly_eur_est, improve_pct) ELSE FZero]

(* --------------------------- SLA per type (353-388) -------------------- *)
Keywords == {"waiting", "resolved", "closed", "assigned", "created", "response", "triage"}

\* str(event): the characters of the labels and keywords of the model
Chars ==
    "waiting" :> <<"w", "a", "i", "t", "i", "n", "g">> @@
    "resolved" :> <<"r", "e", "s", "o", "l", "v", "e", "d">> @@
    "closed" :> <<"c", "l", "o", "s", "e", "d">> @@
    "assigned" :> <<"a", "s", "s", "i", "g", "n", "e", "d">> @@
    "created" :> <<"c", "r", "e", "a", "t", "e", "d">> @@
    "response" :> <<"r", "e", "s", "p", "o", "n", "s", "e">> @@
    "triage" :> <<"t", "r", "i", "a", "g", "e">> @@
    "Waiting, resolved" :> <<"W", "a", "i", "t", "i", "n", "g", ",", " ", "r", "e", "s", "o", "l", "v", "e", "d">> @@
    "CLOSED" :> <<"C", "L", "O", "S", "E", "D">> @@
    "closed response" :> <<"c", "l", "o", "s", "e", "d", " ", "r", "e", "s", "p", "o", "n", "s", "e">> @@
    "Unassigned" :> <<"U", "n", "a", "s", "s", "i", "g", "n", "e", "d">> @@
    "note" :> <<"n", "o", "t", "e">> @@
    "wait" :> <<"w", "a", "i", "t">>

\* str.lower, on the capitals the labels have
LowerCase == [C |-> "c", D |-> "d", E |-> "e", L |-> "l", O |-> "o", S |-> "s", U |-> "u", W |-> "w"]

lower(cs) ==
    [i \in 1..Len(cs) |-> IF cs[i] \in DOMAIN LowerCase THEN LowerCase[cs[i]] ELSE cs[i]]

\* sub in cs, for two strings
In(sub, cs) ==
    \E k \in 0..(Len(cs) - Len(sub)) : SubSeq(cs, k + 1, k + Len(sub)) = sub

\* kw in str(event).lower()
Contains(kw, event) == In(Chars[kw], lower(Chars[event]))

\* (resolved and closed tested before waiting)
map_sla_type_resolution_first(event) ==
    IF Contains("resolved", event) \/ Contains("closed", event) THEN "resolution"
    ELSE IF Contains("waiting", event) THEN "waiting"
    ELSE IF \/ Contains("assigned", event) \/ Contains("created", event)
            \/ Contains("response", event) \/ Contains("triage", event)
         THEN "first_response"
    ELSE "other"

map_sla_type(event) ==
    IF Contains("waiting", event) THEN "waiting"
    ELSE IF Contains("resolved", event) \/ Contains("closed", event) THEN "resolution"
    ELSE IF \/ Contains("assigned", event) \/ Contains("created", event)
            \/ Contains("response", event) \/ Contains("triage", event)
         THEN "first_response"
    ELSE "other"

\* (the breach test with the delay multiplier)
sla_breach_delay_mult(dur, base) == Exceeds(dur, DELAY_MULT, base)

\* (the breach test with a target of twice the baseline)
sla_breach_twice(dur, base) == Exceeds(dur, FInt(2), base)

sla_breach(dur, base) == Exceeds(dur, BREACH_MULT, base)

with_sla(s) ==
    [i \in 1..Len(s) |->
        s[i] @@ [sla_type |-> map_sla_type(s[i].event),
                 sla_breach |-> sla_breach(s[i].duration_hours, s[i].baseline_hours)]]

SlaOrder == <<"first_response", "waiting", "resolution">>

\* (the risk of the period reported as it is, never scaled to a month)
monthly_risk_eur_est_unscaled(risk_period_eur, hours, rate) == risk_period_eur

monthly_risk_eur_est(risk_period_eur, hours, rate) ==
    IF rate > 0 /\ CanExtrapolate(hours)
    THEN FMul(risk_period_eur, monthly_factor(hours))
    ELSE risk_period_eur

sla_entry(sub, hours, rate) ==
    LET steps == Len(sub)
        breached == SelectSeq(sub, LAMBDA r : r.sla_breach)
        breaches == Len(breached)
        compliance_pct ==
            IF steps > 0 THEN Frac(100 * (steps - breaches), steps) ELSE FZero
        breach_hours ==
            IF rate > 0
            THEN Frac(SumSeq(MapSeq(breached, LAMBDA r : r.impact_hours)), HourUnits)
            ELSE FZero
        risk_period_eur == IF rate > 0 THEN FMul(breach_hours, FInt(rate)) ELSE FZero
    IN  [steps |-> steps,
         breaches |-> breaches,
         compliance_pct |-> Round1(compliance_pct),
         monthly_risk_eur_est |-> Round0(monthly_risk_eur_est(risk_period_eur, hours, rate))]

sla_by_type_of(s, hours, rate) ==
    [t \in {SlaOrder[j] : j \in {k \in 1..Len(SlaOrder) :
                \E i \in 1..Len(s) : s[i].sla_type = SlaOrder[k]}} |->
        sla_entry(SelectSeq(s, LAMBDA r : r.sla_type = t), hours, rate)]

\* the keys of the dict in insertion order
Keys(d) == SelectSeq(SlaOrder, LAMBDA t : t \in DOMAIN d)

(* ------------------------ history file (124-130, 390-397) -------------- *)
\* _read_json gives None when the file does not exist; _load_history then []
load_history(file) == IF file = <<>> THEN <<>> ELSE file[1]

history_entry(cm, sla) ==
    [generated_at |-> cm.generated_at, period |-> cm.period, sla_by_type |-> sla]

\* (the history is written anew with the entry of this run)
appended_overwriting(file, entry) == <<entry>>

appended(file, entry) == Append(load_history(file), entry)

(* --------------------- trend against previous (399-410) ---------------- *)
\* (a type the previous snapshot lacks compared with zero)
sla_trend_by_type_zero_default(h) ==
    IF Len(h) >= 2
    THEN LET prev == h[Len(h) - 1].sla_by_type
             curr == h[Len(h)].sla_by_type
             was(t) == IF t \in DOMAIN prev THEN prev[t]
                       ELSE [compliance_pct |-> FZero, monthly_risk_eur_est |-> FZero]
         IN  [t \in DOMAIN curr |->
                [compliance_delta_pp |->
                    Round1(FSub(curr[t].compliance_pct, was(t).compliance_pct)),
                 risk_delta_eur |->
                    Round0(FSub(curr[t].monthly_risk_eur_est,
                                was(t).monthly_risk_eur_est))]]
    ELSE <<>>

sla_trend_by_type_of(h) ==
    IF Len(h) >= 2
    THEN LET prev == h[Len(h) - 1].sla_by_type
             curr == h[Len(h)].sla_by_type
         IN  [t \in DOMAIN curr \cap DOMAIN prev |->
                [compliance_delta_pp |->
                    Round1(FSub(curr[t].compliance_pct, prev[t].compliance_pct)),
                 risk_delta_eur |->
                    Round0(FSub(curr[t].monthly_risk_eur_est,
                                prev[t].monthly_risk_eur_est))]]
    ELSE <<>>

(* ------------------------ upgrade signals (412-448) -------------------- *)
Signal(type, severity, t) == [type |-> type, severity |-> severity, sla_type |-> t]

signals_for(t, v) ==
    (IF FLt(v.compliance_pct, FInt(90))
     THEN <<Signal("lage_compliance",
                   IF FLt(v.compliance_pct, FInt(80)) THEN "high" ELSE "medium", t)>>
     ELSE <<>>)
    \o
    (IF FGe(v.monthly_risk_eur_est, FInt(1000))
     THEN <<Signal("financieel_risico",
                   IF FGe(v.monthly_risk_eur_est, FInt(10000)) THEN "high" ELSE "medium", t)>>
     ELSE <<>>)

\* the compliance values of the last three snapshots strictly decrease
\* (a trend that need not strictly decrease)
trend_fires_not_strict(h, t) ==
    /\ Len(h) >= 3
    /\ LET last3 == SubSeq(h, Len(h) - 2, Len(h))
       IN  /\ \A i \in 1..3 : t \in DOMAIN last3[i].sla_by_type
           /\ FGe(last3[1].sla_by_type[t].compliance_pct,
                  last3[2].sla_by_type[t].compliance_pct)
           /\ FGe(last3[2].sla_by_type[t].compliance_pct,
                  last3[3].sla_by_type[t].compliance_pct)

trend_fires(h, t) ==
    /\ Len(h) >= 3
    /\ LET last3 == SubSeq(h, Len(h) - 2, Len(h))
       IN  /\ \A i \in 1..3 : t \in DOMAIN last3[i].sla_by_type
           /\ FGt(last3[1].sla_by_type[t].compliance_pct,
                  last3[2].sla_by_type[t].compliance_pct)
           /\ FGt(last3[2].sla_by_type[t].compliance_pct,
                  last3[3].sla_by_type[t].compliance_pct)

trend_signal(h, t) ==
    IF trend_fires(h, t) THEN <<Signal("negatieve_trend", "high", t)>> ELSE <<>>

RECURSIVE Concat(_)
Concat(ss) == IF ss = <<>> THEN <<>> ELSE ss[1] \o Concat(Tail(ss))

upgrade_signals_of(sla, h) ==
    Concat(MapSeq(Keys(sla), LAMBDA t : signals_for(t, sla[t])))
    \o Concat(MapSeq(Keys(sla), LAMBDA t : trend_signal(h, t)))

(* --------------------------- advice (450-498) -------------------------- *)
\* (the fractions of waiting and resolution exchanged)
reduction_swapped(t) ==
    IF t = "first_response" THEN Frac(25, 100)
    ELSE IF t = "waiting" THEN Frac(30, 100)
    ELSE Frac(40, 100)

\* the expected reduction of the rule of an SLA type
reduction(t) ==
    IF t = "first_response" THEN Frac(25, 100)
    ELSE IF t = "waiting" THEN Frac(40, 100)
    ELSE Frac(30, 100)

RECURSIVE InsertRanked(_, _, _)
InsertRanked(s, t, sla) ==
    IF s = <<>> THEN <<t>>
    ELSE IF FGe(sla[s[Len(s)]].monthly_risk_eur_est, sla[t].monthly_risk_eur_est)
         THEN Append(s, t)
    ELSE Append(InsertRanked(SubSeq(s, 1, Len(s) - 1), t, sla), s[Len(s)])

\* sorted(..., key=risk, reverse=True): descending, ties in insertion order
RECURSIVE ranking(_, _)
ranking(keys, sla) ==
    IF keys = <<>> THEN <<>>
    ELSE InsertRanked(ranking(SubSeq(keys, 1, Len(keys) - 1), sla), keys[Len(keys)], sla)

ai_advice_of(sla) ==
    LET eligible == SelectSeq(ranking(Keys(sla), sla),
                              LAMBDA t : FGt(sla[t].monthly_risk_eur_est, FZero))
        items == MapSeq(eligible, LAMBDA t :
                    [sla_type |-> t,
                     monthly_risk_reduction_est |->
                        Round0(FMul(sla[t].monthly_risk_eur_est, reduction(t)))])
    IN  SubSeq(items, 1, IF Len(items) < 3 THEN Len(items) ELSE 3)

\* upgrade_signals[:5]
capped(s) == SubSeq(s, 1, IF Len(s) < 5 THEN Len(s) ELSE 5)

(* ------------------------------- actions ------------------------------- *)
NoPeriod == [start |-> NaT, end |-> NaT, hours |-> FZero, can_extrapolate |-> FALSE]
NoTotals == [hours |-> FZero, eur |-> FZero]

\* the module-level variables of a process that has just started
Fresh ==
    /\ df = <<>>
    /\ period = NoPeriod
    /\ baseline = <<>>
    /\ totals = NoTotals
    /\ impact = <<>>
    /\ current_metrics = <<>>
    /\ sla_by_type = <<>>
    /\ history = <<>>
    /\ sla_trend_by_type = <<>>
    /\ upgrade_signals = <<>>
    /\ ai_advice = <<>>

InitWith(logs) ==
    /\ csv \in logs
    /\ eur_per_hour \in Rates
    /\ clock = 1
    /\ pc = "read"
    /\ Fresh
    /\ historyFile = <<>>
    /\ lastFile = <<>>
    /\ prevFile = <<>>
    /\ pdfFiles = {}
    /\ startFiles = [history |-> <<>>, last |-> <<>>, prev |-> <<>>]
    /\ stderr = <<>>
    /\ response = <<>>
    /\ tenants = [e \in Emails |-> [uploads_this_month |-> 0, history |-> <<>>]]
    /\ startTenants = tenants
    /\ runs = <<>>
    /\ requests = <<>>
    /\ month = 1

\* the script started from the command line, on a file with the canonical
\* header
NoRequest == "-"

Init == InitWith(Uploads) /\ columns = CanonicalHeader /\ email = NoRequest

InitRuns == InitWith(TrendLogs) /\ columns = CanonicalHeader /\ email = NoRequest

\* the script started by a first upload request
InitApp ==
    /\ InitWith(AppLogs)
    /\ eur_per_hour \in AppRates
    /\ columns \in Headers
    /\ email \in Emails

\* lines 136-179: read events.csv, drop the malformed rows, sort, period
Cleanup ==
    /\ pc = "read"
    /\ missing(columns) = {}
    /\ LET s == sort_values(dropna(csv))
       IN  /\ df' = s
           /\ period' = [start |-> period_start(s), end |-> period_end(s),
                         hours |-> period_hours(s),
                         can_extrapolate |-> CanExtrapolate(period_hours(s))]
    /\ pc' = "durations"
    /\ UNCHANGED <<csv, eur_per_hour, clock, baseline, totals, impact,
                   current_metrics, sla_by_type, history, sla_trend_by_type,
                   upgrade_signals, ai_advice, files, startFiles, app>>

\* lines 185-189
Durations ==
    /\ pc = "durations"
    /\ df' = steps_of(df)
    /\ pc' = "baseline"
    /\ UNCHANGED <<csv, eur_per_hour, clock, period, baseline, totals, impact,
                   current_metrics, sla_by_type, history, sla_trend_by_type,
                   upgrade_signals, ai_advice, files, startFiles, app>>

\* lines 195-217
BaselineDelays ==
    /\ pc = "baseline"
    /\ baseline' = baseline_of(df)
    /\ df' = with_delays(df, baseline')
    /\ totals' = [hours |-> total_impact_hours(df'),
                  eur |-> total_impact_eur(df', eur_per_hour)]
    /\ pc' = "management"
    /\ UNCHANGED <<csv, eur_per_hour, clock, period, impact, current_metrics,
                   sla_by_type, history, sla_trend_by_type, upgrade_signals,
                   ai_advice, files, startFiles, app>>

\* lines 223-237
Management ==
    /\ pc = "management"
    /\ impact' = management(totals.hours, totals.eur, period.hours, eur_per_hour)
    /\ pc' = "roll"
    /\ UNCHANGED <<csv, eur_per_hour, clock, df, period, baseline, totals,
                   current_metrics, sla_by_type, history, sla_trend_by_type,
                   upgrade_signals, ai_advice, files, startFiles, app>>

\* lines 253-283: last_metrics.json -> previous_metrics.json, new snapshot
RollMetrics ==
    /\ pc = "roll"
    /\ prevFile' = IF lastFile # <<>> THEN lastFile ELSE prevFile
    /\ current_metrics' =
            [generated_at |-> clock,
             period |-> [start |-> period.start, end |-> period.end,
                         hours |-> period.hours],
             impact |-> impact,
             pdf |-> clock,
             monthly_eur_est |-> impact.monthly_eur_est,
             yearly_eur_est |-> impact.yearly_eur_est]
    /\ pc' = "sla"
    /\ UNCHANGED <<csv, eur_per_hour, clock, df, period, baseline, totals,
                   impact, sla_by_type, history, sla_trend_by_type,
                   upgrade_signals, ai_advice, historyFile, lastFile, pdfFiles,
                   startFiles, app>>

\* lines 365-388
SlaByType ==
    /\ pc = "sla"
    /\ df' = with_sla(df)
    /\ sla_by_type' = sla_by_type_of(df', period.hours, eur_per_hour)
    /\ pc' = "history"
    /\ UNCHANGED <<csv, eur_per_hour, clock, period, baseline, totals, impact,
                   current_metrics, history, sla_trend_by_type, upgrade_signals,
                   ai_advice, files, startFiles, app>>

\* lines 390-397
AppendHistory ==
    /\ pc = "history"
    /\ history' = appended(historyFile, history_entry(current_metrics, sla_by_type))
    /\ historyFile' = <<history'>>
    /\ pc' = "signals"
    /\ UNCHANGED <<csv, eur_per_hour, clock, df, period, baseline, totals,
                   impact, current_metrics, sla_by_type, sla_trend_by_type,
                   upgrade_signals, ai_advice, lastFile, prevFile, pdfFiles,
                   startFiles, app>>

\* lines 399-448
UpgradeSignals ==
    /\ pc = "signals"
    /\ sla_trend_by_type' = sla_trend_by_type_of(history)
    /\ upgrade_signals' = upgrade_signals_of(sla_by_type, history)
    /\ pc' = "save"
    /\ UNCHANGED <<csv, eur_per_hour, clock, df, period, baseline, totals,
                   impact, current_metrics, sla_by_type, history, ai_advice,
                   files, startFiles, app>>

\* lines 450-507
SaveMetrics ==
    /\ pc = "save"
    /\ ai_advice' = ai_advice_of(sla_by_type)
    /\ current_metrics' = current_metrics @@
            [sla_by_type |-> sla_by_type,
             sla_trend_by_type |-> sla_trend_by_type,
             upgrade_signals |-> capped(upgrade_signals),
             ai_advice |-> ai_advice']
    /\ lastFile' = <<current_metrics'>>
    /\ pc' = "pdf"
    /\ UNCHANGED <<csv, eur_per_hour, clock, df, period, baseline, totals,
                   impact, sla_by_type, history, sla_trend_by_type,
                   upgrade_signals, historyFile, prevFile, pdfFiles, startFiles, app>>

\* lines 513-909: the report is written and the script ends
BuildPdf ==
    /\ pc = "pdf"
    /\ pdfFiles' = pdfFiles \cup {current_metrics.pdf}
    /\ pc' = "done"
    /\ UNCHANGED <<csv, eur_per_hour, clock, locals, historyFile, lastFile,
                   prevFile, startFiles, app>>

\* lines 147-156: a required column has no synonym in the header
SchemaError ==
    /\ pc = "read"
    /\ missing(columns) # {}
    /\ stderr' = [error |-> "ValueError", missing |-> missing(columns), found |-> columns]
    /\ pc' = "failed"
    /\ UNCHANGED <<csv, eur_per_hour, clock, locals, files, startFiles, columns,
                   email, tenants, response, startTenants, runs, requests, month>>

\* lines 136-139: events.csv is missing or unreadable
FailRead ==
    /\ pc = "read"
    /\ pc' = "failed"
    /\ UNCHANGED <<csv, eur_per_hour, clock, locals, files, startFiles, app>>

\* line 397: _save_history raises (the data directory cannot be written)
FailHistory ==
    /\ pc = "history"
    /\ stderr' = [error |-> "OSError", missing |-> {}, found |-> columns]
    /\ pc' = "failed"
    /\ UNCHANGED <<csv, eur_per_hour, clock, locals, files, startFiles, columns,
                   email, tenants, response, startTenants, runs, requests, month>>

\* line 905: doc.build raises (the report cannot be laid out or written)
FailPdf ==
    /\ pc = "pdf"
    /\ pc' = "failed"
    /\ UNCHANGED <<csv, eur_per_hour, clock, locals, files, startFiles, app>>

\* the next upload: a new events.csv, a new process
NewRun ==
    /\ pc \in {"done", "failed"}
    /\ clock < MaxRuns
    /\ csv' \in TrendLogs
    /\ eur_per_hour' \in Rates
    /\ clock' = clock + 1
    /\ pc' = "read"
    /\ df' = <<>>
    /\ period' = NoPeriod
    /\ baseline' = <<>>
    /\ totals' = NoTotals
    /\ impact' = <<>>
    /\ current_metrics' = <<>>
    /\ sla_by_type' = <<>>
    /\ history' = <<>>
    /\ sla_trend_by_type' = <<>>
    /\ upgrade_signals' = <<>>
    /\ ai_advice' = <<>>
    /\ startFiles' = [history |-> historyFile, last |-> lastFile, prev |-> prevFile]
    /\ UNCHANGED <<files, app>>

Next ==
    \/ Cleanup
    \/ Durations
    \/ BaselineDelays
    \/ Management
    \/ RollMetrics
    \/ SlaByType
    \/ AppendHistory
    \/ UpgradeSignals
    \/ SaveMetrics
    \/ BuildPdf

Spec == Init /\ [][Next]_vars

(* ---------------------- the upload endpoint (app.py) ------------------- *)
\* the limit of the basic plan, as configured in the environment
BASIC_MONTHLY_UPLOAD_LIMIT == 2
MAX_HISTORY_ITEMS == 20

NoPdf == 0

\* _can_upload: every tenant is an active subscriber on the basic plan, and
\* the uploads of a behaviour fall in one month
can_upload(t, e) == t[e].uploads_this_month < BASIC_MONTHLY_UPLOAD_LIMIT

\* _latest_pdf_in_uploads(since_ts): the newest report written since then
latest_pdf_in_uploads(pdfs, since) ==
    IF {f \in pdfs : f >= since} = {} THEN NoPdf
    ELSE MaxOf({f \in pdfs : f >= since})

\* lines 453-461: last_metrics.json has none of the keys created_at_utc,
\* eur_per_hour, total_impact_hours and total_impact_eur
upload_entry(metrics, pdf, rate, now) ==
    [date |-> now, pdf |-> pdf, eur_per_hour |-> rate,
     impact_hours |-> FZero, impact_eur |-> FZero]

\* _append_history: the last MAX_HISTORY_ITEMS entries are kept
append_history(t, e, entry) ==
    LET h == Append(t[e].history, entry)
    IN  [t EXCEPT ![e].history =
            IF Len(h) > MAX_HISTORY_ITEMS
            THEN SubSeq(h, Len(h) - MAX_HISTORY_ITEMS + 1, Len(h))
            ELSE h]

increment_upload(t, e) == [t EXCEPT ![e].uploads_this_month = @ + 1]

\* lines 385-432: a request of a tenant below the limit; events.csv is
\* written and the script is started
NewUpload ==
    /\ pc = "responded"
    /\ clock < MaxRuns
    /\ \E e \in Emails :
        /\ can_upload(tenants, e)
        /\ email' = e
    /\ csv' \in AppLogs
    /\ columns' \in Headers
    /\ eur_per_hour' \in AppRates
    /\ clock' = clock + 1
    /\ pc' = "read"
    /\ df' = <<>>
    /\ period' = NoPeriod
    /\ baseline' = <<>>
    /\ totals' = NoTotals
    /\ impact' = <<>>
    /\ current_metrics' = <<>>
    /\ sla_by_type' = <<>>
    /\ history' = <<>>
    /\ sla_trend_by_type' = <<>>
    /\ upgrade_signals' = <<>>
    /\ ai_advice' = <<>>
    /\ stderr' = <<>>
    /\ response' = <<>>
    /\ startFiles' = [history |-> historyFile, last |-> lastFile, prev |-> prevFile]
    /\ startTenants' = tenants
    /\ UNCHANGED <<files, tenants, runs, requests, month>>

\* lines 391-398: a request of a tenant at the limit is refused
RejectLimit ==
    /\ pc = "responded"
    /\ clock < MaxRuns
    /\ \E e \in Emails :
        /\ ~can_upload(tenants, e)
        /\ email' = e
    /\ clock' = clock + 1
    /\ response' = [status |-> 403]
    /\ startFiles' = [history |-> historyFile, last |-> lastFile, prev |-> prevFile]
    /\ startTenants' = tenants
    /\ UNCHANGED <<csv, eur_per_hour, pc, locals, files, columns, stderr, tenants,
                   runs, requests, month>>

\* lines 433-441: the script ended with an error
RejectUpload ==
    /\ pc = "failed"
    /\ response' = [status |-> 500, detail |-> stderr]
    /\ pc' = "responded"
    /\ UNCHANGED <<csv, eur_per_hour, clock, locals, files, startFiles, columns,
                   stderr, email, tenants, startTenants, runs, requests, month>>

\* lines 447-467: the report is looked up, the tenant's history entry is
\* stored and the upload is counted
RecordUpload ==
    /\ pc = "done"
    /\ LET pdf == latest_pdf_in_uploads(pdfFiles, clock)
       IN  IF pdf = NoPdf
           THEN /\ response' = [status |-> 500, detail |-> <<>>]
                /\ tenants' = tenants
           ELSE /\ tenants' =
                    increment_upload(
                        append_history(tenants, email,
                            upload_entry(lastFile, pdf, eur_per_hour, clock)),
                        email)
                /\ response' = [status |-> 200, filename |-> pdf]
    /\ pc' = "responded"
    /\ UNCHANGED <<csv, eur_per_hour, clock, locals, files, startFiles, columns,
                   stderr, email, startTenants, runs, requests, month>>

NextApp ==
    \/ Next
    \/ SchemaError
    \/ FailHistory
    \/ RejectUpload
    \/ RecordUpload
    \/ NewUpload
    \/ RejectLimit

SpecApp == InitApp /\ [][NextApp]_vars

NextRuns ==
    \/ Next
    \/ FailRead
    \/ FailPdf
    \/ NewRun

SpecRuns == InitRuns /\ [][NextRuns]_vars

(* ------------- two analyses at the history step (390-397) -------------- *)
\* Two analyze.py processes run at the same time on the same data
\* directory. Each has computed its snapshot and stands before line 391;
\* lines 391, 392-396 and 397 are separate steps of a process, and nothing
\* in the script keeps the other process from running between them.
Procs == {1, 2}

RaceRate == 100

\* lines 392-396: the entry of process p's run on its events.csv
run_entry(p, log) ==
    LET s == sort_values(dropna(log))
        steps == steps_of(s)
        frame == with_sla(with_delays(steps, baseline_of(steps)))
    IN  history_entry(
            [generated_at |-> p,
             period |-> [start |-> period_start(s), end |-> period_end(s),
                         hours |-> period_hours(s)]],
            sla_by_type_of(frame, period_hours(s), RaceRate))

\* the history log the two processes find: none, or one earlier run's
StartHistories == {<<>>} \cup {<<<<run_entry(0, l)>>>> : l \in AppLogs}

InitRace ==
    /\ csv = <<>>
    /\ eur_per_hour = RaceRate
    /\ clock = 1
    /\ pc = "history"
    /\ Fresh
    /\ historyFile \in StartHistories
    /\ lastFile = <<>>
    /\ prevFile = <<>>
    /\ pdfFiles = {}
    /\ startFiles = [history |-> historyFile, last |-> <<>>, prev |-> <<>>]
    /\ columns = CanonicalHeader
    /\ stderr = <<>>
    /\ email = NoRequest
    /\ response = <<>>
    /\ tenants = [e \in Emails |-> [uploads_this_month |-> 0, history |-> <<>>]]
    /\ startTenants = tenants
    /\ runs \in [Procs -> {[pc |-> "load", csv |-> l, history |-> <<>>] : l \in TrendLogs}]
    /\ requests = <<>>
    /\ month = 1

\* (the file read again when the list is written)
written_reread(p) == <<Append(load_history(historyFile), run_entry(p, runs[p].csv))>>

\* line 397: the file is replaced by the list the process holds
written(p) == <<runs[p].history>>

RaceUnchanged ==
    UNCHANGED <<csv, eur_per_hour, clock, pc, locals, lastFile, prevFile, pdfFiles,
                startFiles, columns, stderr, email, tenants, response,
                startTenants, requests, month>>

\* line 391: history = _load_history()
LoadHistory(p) ==
    /\ runs[p].pc = "load"
    /\ runs' = [runs EXCEPT ![p].history = load_history(historyFile),
                            ![p].pc = "append"]
    /\ UNCHANGED historyFile
    /\ RaceUnchanged

\* lines 392-396: history.append({...})
AppendEntry(p) ==
    /\ runs[p].pc = "append"
    /\ runs' = [runs EXCEPT ![p].history = Append(@, run_entry(p, runs[p].csv)),
                            ![p].pc = "save"]
    /\ UNCHANGED historyFile
    /\ RaceUnchanged

\* line 397: _save_history(history)
SaveHistory(p) ==
    /\ runs[p].pc = "save"
    /\ historyFile' = written(p)
    /\ runs' = [runs EXCEPT ![p].pc = "saved"]
    /\ RaceUnchanged

NextRace == \E p \in Procs : LoadHistory(p) \/ AppendEntry(p) \/ SaveHistory(p)

SpecRace == InitRace /\ [][NextRace]_vars

(* ---------- upload requests served at the same time (app.py) ----------- *)
\* Two POST /upload requests are in progress at once.  The handler suspends
\* at `await file.read()` (line 411), and requests served by different server
\* processes run side by side; tenants.json, uploads/events.csv, the reports
\* and the data files of analyze.py are shared by all of them.  A request
\* is modelled in four steps, each a stretch of the handler between two
\* points where another request can act: the gate (lines 382-406), the
\* write of events.csv (408-423), the analyzer run (425-441) and the report
\* lookup with the bookkeeping (447-467).
Reqs == {1, 2}
Months == {1, 2}
WebRate == 100
WebLogs == {TrendLog(1, 4, 2), TrendLog(2, 4, 2)}
WebHeaders == {CanonicalHeader, {"case_id", "timestamp"}}
Usages == 0..BASIC_MONTHLY_UPLOAD_LIMIT

\* _ensure_month_reset (lines 119-128)
ensure_month_reset(t, e, m) ==
    IF t[e].usage_month # m
    THEN [t EXCEPT ![e].usage_month = m, ![e].uploads_this_month = 0]
    ELSE t

\* analyze.py run from its first to its last line on the files as they are:
\* the data files it leaves behind
analysis(log, rate, now, pdf_name, hist, last, prev) ==
    LET s == sort_values(dropna(log))
        per == [start |-> period_start(s), end |-> period_end(s),
                hours |-> period_hours(s)]
        steps == steps_of(s)
        delayed == with_delays(steps, baseline_of(steps))
        imp == management(total_impact_hours(delayed),
                          total_impact_eur(delayed, rate), per.hours, rate)
        cm == [generated_at |-> now,
               period |-> per,
               impact |-> imp,
               pdf |-> pdf_name,
               monthly_eur_est |-> imp.monthly_eur_est,
               yearly_eur_est |-> imp.yearly_eur_est]
        sla == sla_by_type_of(with_sla(delayed), per.hours, rate)
        h == appended(hist, history_entry(cm, sla))
    IN  [history |-> <<h>>,
         last |-> <<cm @@ [sla_by_type |-> sla,
                           sla_trend_by_type |-> sla_trend_by_type_of(h),
                           upgrade_signals |-> capped(upgrade_signals_of(sla, h)),
                           ai_advice |-> ai_advice_of(sla)]>>,
         prev |-> IF last # <<>> THEN last ELSE prev]

\* _latest_pdf_in_uploads(since_ts) over report files with a name, a
\* modification time and the rows they report on
latest_pdf(pdfs, since) ==
    LET recent == {f \in pdfs : f.mtime >= since}
    IN  IF recent = {} THEN NoPdf
        ELSE (CHOOSE f \in recent : \A g \in recent : g.mtime <= f.mtime).name

InitWeb ==
    /\ csv = <<>>
    /\ eur_per_hour = WebRate
    /\ clock = 1
    /\ pc = "serving"
    /\ Fresh
    /\ historyFile = <<>>
    /\ lastFile = <<>>
    /\ prevFile = <<>>
    /\ pdfFiles = {}
    /\ startFiles = [history |-> <<>>, last |-> <<>>, prev |-> <<>>]
    /\ columns = CanonicalHeader
    /\ stderr = <<>>
    /\ email = NoRequest
    /\ response = <<>>
    /\ month = 1
    /\ tenants \in [Emails -> {[usage_month |-> 1, uploads_this_month |-> u,
                                history |-> <<>>] : u \in Usages}]
    /\ startTenants = tenants
    /\ runs = <<>>
    /\ requests \in [Reqs -> {[pc |-> "gate", email |-> e, content |-> l, header |-> h,
                               started |-> 0, pdf_name |-> NoPdf, response |-> <<>>] :
                              e \in Emails, l \in WebLogs, h \in WebHeaders}]

WebUnchanged == UNCHANGED <<eur_per_hour, pc, locals, startFiles, stderr, email,
                            response, startTenants, runs>>

\* lines 382-406: the month reset and the limit; the handler then suspends
\* in `await file.read()`
Gate(q) ==
    /\ requests[q].pc = "gate"
    /\ tenants' = ensure_month_reset(tenants, requests[q].email, month)
    /\ IF can_upload(tenants', requests[q].email)
       THEN requests' = [requests EXCEPT ![q].pc = "read"]
       ELSE requests' = [requests EXCEPT ![q].pc = "responded",
                                         ![q].response = [status |-> 403]]
    /\ UNCHANGED <<csv, columns, clock, files, month>>
    /\ WebUnchanged

\* lines 408-423: uploads/events.csv is overwritten, the report is named
\* after the time and the start time is taken
SaveCsv(q) ==
    /\ requests[q].pc = "read"
    /\ csv' = requests[q].content
    /\ columns' = requests[q].header
    /\ requests' = [requests EXCEPT ![q].pdf_name = clock,
                                    ![q].started = clock,
                                    ![q].pc = "run"]
    /\ clock' = clock + 1
    /\ UNCHANGED <<files, tenants, month>>
    /\ WebUnchanged

\* lines 425-441: subprocess.run of analyze.py, which reads
\* uploads/events.csv as it is now and writes the report under the name it
\* was given; a run that ends with an error is answered with 500
Analyze(q) ==
    /\ requests[q].pc = "run"
    /\ IF missing(columns) # {}
       THEN /\ requests' = [requests EXCEPT ![q].pc = "responded",
                                            ![q].response = [status |-> 500]]
            /\ UNCHANGED files
       ELSE LET out == analysis(csv, WebRate, clock, requests[q].pdf_name,
                                historyFile, lastFile, prevFile)
            IN  /\ historyFile' = out.history
                /\ lastFile' = out.last
                /\ prevFile' = out.prev
                /\ pdfFiles' = {f \in pdfFiles : f.name # requests[q].pdf_name}
                        \cup {[name |-> requests[q].pdf_name, mtime |-> clock,
                               rows |-> csv]}
                /\ requests' = [requests EXCEPT ![q].pc = "lookup"]
    /\ clock' = clock + 1
    /\ UNCHANGED <<csv, columns, tenants, month>>
    /\ WebUnchanged

\* lines 447-467: the newest report since the start is taken for this
\* request's, the tenant's history entry is written and the upload counted
Respond(q) ==
    /\ requests[q].pc = "lookup"
    /\ LET pdf == latest_pdf(pdfFiles, requests[q].started)
           e == requests[q].email
       IN  IF pdf = NoPdf
           THEN /\ requests' = [requests EXCEPT ![q].pc = "responded",
                                                ![q].response = [status |-> 500]]
                /\ tenants' = tenants
           ELSE /\ tenants' =
                    increment_upload(
                        ensure_month_reset(
                            append_history(tenants, e,
                                upload_entry(lastFile, pdf, WebRate, clock)),
                            e, month),
                        e)
                /\ requests' = [requests EXCEPT
                                    ![q].pc = "responded",
                                    ![q].response = [status |-> 200, filename |-> pdf]]
    /\ UNCHANGED <<csv, columns, clock, files, month>>
    /\ WebUnchanged

\* the calendar month ends
NewMonth ==
    /\ month + 1 \in Months
    /\ month' = month + 1
    /\ UNCHANGED <<csv, columns, clock, files, tenants, requests>>
    /\ WebUnchanged

NextWeb ==
    \/ \E q \in Reqs : Gate(q) \/ SaveCsv(q) \/ Analyze(q) \/ Respond(q)
    \/ NewMonth

SpecWeb == InitWeb /\ [][NextWeb]_vars

(* ============================== properties ============================= *)
Count(s, P(_)) == Cardinality({i \in 1..Len(s) : P(s[i])})

HasDurations == pc \in {"baseline", "management", "roll", "sla", "history", "signals",
                        "save", "pdf", "done"}
HasBaseline == pc \in {"management", "roll", "sla", "history", "signals", "save",
                       "pdf", "done"}
HasImpact == pc \in {"roll", "sla", "history", "signals", "save", "pdf", "done"}
HasSla == pc \in {"history", "signals", "save", "pdf", "done"}
HasSignals == pc \in {"save", "pdf", "done"}
HasSnapshot == pc \in {"pdf", "done"}

\* the rows of events.csv that survive the cleanup, for one case
IsCleanRowOf(c, r) ==
    r.case_id = c /\ r.case_id # NullCase /\ r.timestamp # NaT /\ r.event # Null

CaseIds == {csv[i].case_id : i \in 1..Len(csv)} \ {NullCase}

LastTimeOf(c) ==
    MaxOf({csv[i].timestamp : i \in {j \in 1..Len(csv) : IsCleanRowOf(c, csv[j])}})

\* C1: every step has duration_hours >= 0; a case with k cleaned events
\* yields at most k-1 steps (none for k = 1), and of the events a case has at
\* its last timestamp at least one yields no step.
C1_StepsNonNegativeNoFinal ==
    HasDurations =>
        /\ \A i \in 1..Len(df) : df[i].duration_hours >= 0
        /\ \A i \in 1..Len(df) : df[i].case_id \in CaseIds
        /\ \A c \in CaseIds :
            LET k == Count(csv, LAMBDA r : IsCleanRowOf(c, r))
                n == Count(df, LAMBDA r : r.case_id = c)
            IN  /\ k >= 1 => n <= k - 1
                /\ k = 0 => n = 0
                /\ k >= 1 =>
                      Count(df, LAMBDA r : r.case_id = c /\ r.timestamp = LastTimeOf(c))
                        <= Count(csv, LAMBDA r : IsCleanRowOf(c, r)
                                                 /\ r.timestamp = LastTimeOf(c)) - 1

\* a malformed row was dropped, one case has a single event and no step,
\* another case has two events and one step
C1_Witness ==
    /\ pc = "baseline"
    /\ \E i \in 1..Len(csv) : csv[i] \in BadRows
    /\ \E c \in CaseIds :
        /\ Count(csv, LAMBDA r : IsCleanRowOf(c, r)) = 1
        /\ Count(df, LAMBDA r : r.case_id = c) = 0
    /\ \E c \in CaseIds :
        /\ Count(csv, LAMBDA r : IsCleanRowOf(c, r)) = 2
        /\ Count(df, LAMBDA r : r.case_id = c) = 1

(* ------------------------------ C6, C7 --------------------------------- *)
ShortPeriod == FLt(period.hours, FInt(1))

ExtrapolatedFields ==
    {"monthly_hours_est", "monthly_eur_est", "yearly_hours_est", "yearly_eur_est",
     "fte_equivalent", "potential_saving_hours", "potential_saving_eur"}

\* C6: whenever period_hours < 1 the seven extrapolated fields are 0, in the
\* management metrics and in the snapshot written to last_metrics.json.
C6_NoExtrapolationBelowMinPeriod ==
    /\ (HasImpact /\ ShortPeriod) => \A f \in ExtrapolatedFields : impact[f] = FZero
    /\ (pc = "done" /\ ShortPeriod) =>
            /\ \A f \in ExtrapolatedFields : lastFile[1].impact[f] = FZero
            /\ lastFile[1].monthly_eur_est = FZero
            /\ lastFile[1].yearly_eur_est = FZero

\* a run over less than an hour, but more than nothing, with delays that
\* cost hours and euros
C6_Witness ==
    /\ pc = "done"
    /\ ShortPeriod
    /\ FGt(period.hours, FZero)
    /\ eur_per_hour > 0
    /\ FGt(impact.total_hours, FZero)
    /\ FGt(impact.total_eur, FZero)

\* C7: whenever period_hours < 1 the monthly risk of every reported SLA type
\* is 0.
C7_NoMonthlyRiskBelowMinPeriod ==
    (HasSla /\ ShortPeriod) =>
        \A t \in DOMAIN sla_by_type : sla_by_type[t].monthly_risk_eur_est = FZero

(* ------------------------------ C8 .. C10 ------------------------------ *)
EventsOf(s) == {s[i].event : i \in 1..Len(s)}

\* the k-th smallest of a sequence of numbers, by rank
KthSmallest(ds, k) ==
    CHOOSE x \in Range(ds) :
        /\ Count(ds, LAMBDA d : d < x) < k
        /\ k <= Count(ds, LAMBDA d : d <= x)

\* twice the median of a non-empty sequence of numbers
TwiceMedian(ds) ==
    LET n == Len(ds)
    IN  IF n % 2 = 1 THEN 2 * KthSmallest(ds, (n + 1) \div 2)
        ELSE KthSmallest(ds, n \div 2) + KthSmallest(ds, n \div 2 + 1)

\* C8: baseline[event] is the median of the durations of the steps of the
\* current run with that label (the mean of the two middle values for an even
\* count), for exactly the labels that have a step; every row carries the
\* baseline of its label.
C8_BaselineIsMedian ==
    HasBaseline =>
        /\ DOMAIN baseline = EventsOf(df)
        /\ \A e \in EventsOf(df) : 2 * baseline[e] = TwiceMedian(DurationsOf(df, e))
        /\ \A i \in 1..Len(df) : df[i].baseline_hours = baseline[df[i].event]

\* three steps of one label, the longest 9 h: the baseline is the middle
\* value, 1 h, not the mean
C8_Witness ==
    /\ pc = "management"
    /\ \E e \in EventsOf(df) :
        /\ Len(DurationsOf(df, e)) = 3
        /\ baseline[e] = HourUnits
        /\ \E i \in 1..Len(df) : df[i].event = e /\ df[i].duration_hours = 9 * HourUnits

\* the end-to-end scenario: two steps of one label that take 1 h and 10 h
IsScenario(e) ==
    /\ Len(DurationsOf(df, e)) = 2
    /\ Range(DurationsOf(df, e)) = {HourUnits, 10 * HourUnits}

\* C9: for every step is_delay <=> duration > 1.5 x baseline[event] and
\* impact = max(0, duration - baseline[event]); with durations 1 h and 10 h on
\* one label the baseline is 5.5 h, the 10 h step is a delay with impact
\* 4.5 h, the 1 h step is no delay and has impact 0.
C9_DelayAndImpact ==
    HasBaseline =>
        /\ \A i \in 1..Len(df) :
            LET d == df[i].duration_hours
                b == baseline[df[i].event]
            IN  /\ df[i].is_delay <=> (2 * d > 3 * b)
                /\ df[i].impact_hours = (IF d > b THEN d - b ELSE 0)
        /\ \A e \in EventsOf(df) : IsScenario(e) =>
            /\ 2 * baseline[e] = 11 * HourUnits
            /\ \A i \in 1..Len(df) : df[i].event = e =>
                IF df[i].duration_hours = 10 * HourUnits
                THEN df[i].is_delay /\ 2 * df[i].impact_hours = 9 * HourUnits
                ELSE ~df[i].is_delay /\ df[i].impact_hours = 0

\* the scenario itself: cases 1 and 2, created then resolved, 1 h and 10 h
C9_Witness ==
    /\ pc = "management"
    /\ IsScenario("created")
    /\ Cardinality({df[i].case_id : i \in 1..Len(df)}) = 2
    /\ \E i \in 1..Len(df) : df[i].is_delay

\* a step whose label no other step has
IsSingle(i) == Count(df, LAMBDA r : r.event = df[i].event) = 1

\* C10: a label observed in exactly one step has that step's duration as its
\* baseline, impact 0 and is not a delay, for any duration >= 0.
C10_SingleObservationNeverDelayed ==
    HasBaseline =>
        \A i \in 1..Len(df) : IsSingle(i) =>
            /\ baseline[df[i].event] = df[i].duration_hours
            /\ df[i].impact_hours = 0
            /\ ~df[i].is_delay

\* a single-step label of duration 0 next to a single-step label that took time
C10_Witness ==
    /\ pc = "management"
    /\ \E i \in 1..Len(df) : IsSingle(i) /\ df[i].duration_hours = 0
    /\ \E i \in 1..Len(df) : IsSingle(i) /\ df[i].duration_hours > 0

(* ------------------------------ C2 .. C5 ------------------------------- *)
\* the list stored in a history file
Stored(file) == IF file = <<>> THEN <<>> ELSE file[1]

\* C2: a run that ends with an error leaves metrics_history.json and
\* last_metrics.json as they were when it started.
C2_FailedRunWritesNoSnapshot ==
    pc = "failed" => /\ historyFile = startFiles.history
                     /\ lastFile = startFiles.last

\* the entry a run appends: its generated_at, period and sla_by_type
EntryOfRun ==
    [generated_at |-> clock,
     period |-> [start |-> period.start, end |-> period.end, hours |-> period.hours],
     sla_by_type |-> sla_by_type]

\* C3: a step that changes the history log adds one entry after the entries
\* already stored, which stay as they were and in their order; a run that
\* completes has stored the history it found followed by its own entry.
C3_HistoryAppendOnly ==
    [][/\ historyFile' # historyFile =>
            /\ Len(Stored(historyFile')) = Len(Stored(historyFile)) + 1
            /\ SubSeq(Stored(historyFile'), 1, Len(Stored(historyFile)))
                    = Stored(historyFile)
       /\ pc' = "done" =>
            Stored(historyFile') = Append(Stored(startFiles'.history), EntryOfRun')]_vars

\* a second run completed, on a history that held the first run's entry
C3_Witness ==
    /\ pc = "done"
    /\ clock = 2
    /\ Len(Stored(historyFile)) = 2
    /\ Stored(historyFile)[1].generated_at = 1

Fires(t) ==
    \E i \in 1..Len(upgrade_signals) :
        upgrade_signals[i].type = "negatieve_trend" /\ upgrade_signals[i].sla_type = t

\* compliance_pct of SLA type t in the i-th last stored snapshot, in tenths
ComplianceTenths(i, t) ==
    LET h == Stored(historyFile)
        c == h[Len(h) + 1 - i].sla_by_type[t].compliance_pct
    IN  (10 * c.n) \div c.d

\* C4: the declining-trend signal of an SLA type is generated exactly when
\* the history holds at least 3 snapshots, the last three all report the type
\* and their compliance_pct strictly decreases; it has severity high.
C4_TrendSignal ==
    HasSignals =>
        /\ \A t \in Range(SlaOrder) :
            Fires(t) <=>
                /\ Len(Stored(historyFile)) >= 3
                /\ \A i \in 1..3 :
                    t \in DOMAIN Stored(historyFile)[Len(Stored(historyFile)) + 1 - i].sla_by_type
                /\ ComplianceTenths(3, t) > ComplianceTenths(2, t)
                /\ ComplianceTenths(2, t) > ComplianceTenths(1, t)
        /\ \A i \in 1..Len(upgrade_signals) :
            upgrade_signals[i].type = "negatieve_trend" =>
                upgrade_signals[i].severity = "high"

\* the signal fired for one type and not for another that the last three
\* snapshots do not all report
C4_Witness ==
    /\ pc = "done"
    /\ Fires("first_response")
    /\ "resolution" \in DOMAIN sla_by_type
    /\ ~Fires("resolution")

\* C5: the snapshot holds at most 5 signals, and no generated signal of
\* severity high is left out while a signal of severity medium is in it.
C5_TopFiveBySeverity ==
    HasSnapshot =>
        LET emitted == lastFile[1].upgrade_signals
        IN  /\ Len(emitted) <= 5
            /\ ~ /\ \E i \in 1..Len(upgrade_signals) :
                        /\ upgrade_signals[i].severity = "high"
                        /\ upgrade_signals[i] \notin Range(emitted)
                 /\ \E j \in 1..Len(emitted) : emitted[j].severity = "medium"

(* -------------------------------- C11 ---------------------------------- *)
\* the steps of SLA type t, and those of them that took more than 1.2 x the
\* baseline of their label
StepsOfType(t) == Count(df, LAMBDA r : r.sla_type = t)
BreachesOfType(t) ==
    Count(df, LAMBDA r : r.sla_type = t /\ 5 * r.duration_hours > 6 * baseline[r.event])

\* C11: every reported SLA type has steps > 0, reports its steps and its
\* breaches (steps with duration > 1.2 x baseline), and its compliance_pct is
\* 100 x (steps - breaches) / steps to one decimal (a multiple of 0.1 at most
\* 0.05 away); it is exactly 100 when no step of the type breaches and
\* exactly 0 when every step of the type breaches.
C11_CompliancePct ==
    HasSla =>
        \A t \in DOMAIN sla_by_type :
            LET steps == StepsOfType(t)
                breaches == BreachesOfType(t)
                c == sla_by_type[t].compliance_pct
            IN  /\ steps > 0
                /\ sla_by_type[t].steps = steps
                /\ sla_by_type[t].breaches = breaches
                /\ c.d \in {1, 2, 5, 10}
                /\ 20 * Abs(c.n * steps - 100 * (steps - breaches) * c.d) <= c.d * steps
                /\ breaches = 0 => c = FInt(100)
                /\ breaches = steps => c = FZero

\* one type without a breach at 100, another with one breach in two steps at
\* 50
C11_Witness ==
    /\ pc = "history"
    /\ \E t \in DOMAIN sla_by_type :
        BreachesOfType(t) = 0 /\ sla_by_type[t].compliance_pct = FInt(100)
    /\ \E t \in DOMAIN sla_by_type :
        /\ StepsOfType(t) = 2
        /\ BreachesOfType(t) = 1
        /\ sla_by_type[t].compliance_pct = FInt(50)

\* C11 as stated: compliance_pct is exactly 100 x (steps - breaches) / steps.
C11_ExactCompliance ==
    HasSla =>
        \A t \in DOMAIN sla_by_type :
            LET steps == StepsOfType(t)
                breaches == BreachesOfType(t)
                c == sla_by_type[t].compliance_pct
            IN  /\ c.n * steps = 100 * (steps - breaches) * c.d
                /\ breaches = 0 => c = FInt(100)
                /\ breaches = steps => c = FZero

(* -------------------------------- C12 ---------------------------------- *)
\* what a run on events.csv computes at rate r
FrameOf(log) ==
    LET steps == steps_of(sort_values(dropna(log)))
    IN  with_sla(with_delays(steps, baseline_of(steps)))

HoursOf(log) == period_hours(sort_values(dropna(log)))

ImpactAt(log, r) ==
    LET frame == FrameOf(log)
    IN  management(total_impact_hours(frame), total_impact_eur(frame, r), HoursOf(log), r)

SlaAt(log, r) == sla_by_type_of(FrameOf(log), HoursOf(log), r)

CurrencyFields == {"total_eur", "monthly_eur_est", "yearly_eur_est", "potential_saving_eur"}
HourFields ==
    {"total_hours", "monthly_hours_est", "yearly_hours_est", "fte_equivalent",
     "potential_saving_hours"}

\* C12: in the snapshot of a run with rate 0 every currency field is 0, and
\* the reported SLA types, their steps, breaches and compliance_pct, the total
\* impact hours, the monthly and yearly hours and the FTE are those of a run
\* on the same events.csv with any rate > 0.
C12_RateZeroDecoupled ==
    (pc = "done" /\ eur_per_hour = 0) =>
        LET snap == lastFile[1]
        IN  /\ \A f \in CurrencyFields : snap.impact[f] = FZero
            /\ snap.monthly_eur_est = FZero
            /\ snap.yearly_eur_est = FZero
            /\ \A t \in DOMAIN snap.sla_by_type :
                    snap.sla_by_type[t].monthly_risk_eur_est = FZero
            /\ \A r \in Rates \ {0} :
                LET sla == SlaAt(csv, r)
                    imp == ImpactAt(csv, r)
                IN  /\ DOMAIN snap.sla_by_type = DOMAIN sla
                    /\ \A t \in DOMAIN snap.sla_by_type :
                        /\ snap.sla_by_type[t].steps = sla[t].steps
                        /\ snap.sla_by_type[t].breaches = sla[t].breaches
                        /\ snap.sla_by_type[t].compliance_pct = sla[t].compliance_pct
                    /\ \A f \in HourFields : snap.impact[f] = imp[f]

\* a run with rate 0 over an hour or more, with delays and a breach that a
\* rate > 0 would have priced
C12_Witness ==
    /\ pc = "done"
    /\ eur_per_hour = 0
    /\ FGt(lastFile[1].impact.monthly_hours_est, FZero)
    /\ \E t \in DOMAIN sla_by_type : sla_by_type[t].breaches > 0
    /\ \E r \in Rates \ {0} :
        /\ FGt(ImpactAt(csv, r).monthly_eur_est, FZero)
        /\ \E t \in DOMAIN sla_by_type : FGt(SlaAt(csv, r)[t].monthly_risk_eur_est, FZero)

(* -------------------------------- C13 ---------------------------------- *)
RiskOf(t) == sla_by_type[t].monthly_risk_eur_est

\* the position of an SLA type in the order the types are reported in
RankOf(t) == CHOOSE k \in 1..Len(SlaOrder) : SlaOrder[k] = t

\* the percentage the rule of an SLA type is expected to take off its risk
RulePct(t) ==
    CASE t = "first_response" -> 25
      [] t = "resolution" -> 30
      [] t = "waiting" -> 40

AdviceTypes == {ai_advice[i].sla_type : i \in 1..Len(ai_advice)}

AdviceListed ==
    /\ Len(ai_advice) <= 3
    /\ Cardinality(AdviceTypes) = Len(ai_advice)
    /\ AdviceTypes = {t \in DOMAIN sla_by_type : FGt(RiskOf(t), FZero)}
    /\ \A i, j \in 1..Len(ai_advice) : i < j =>
            LET a == ai_advice[i].sla_type
                b == ai_advice[j].sla_type
            IN  \/ FGt(RiskOf(a), RiskOf(b))
                \/ RiskOf(a) = RiskOf(b) /\ RankOf(a) < RankOf(b)
    /\ lastFile[1].ai_advice = ai_advice

\* C13: the advisory list has at most 3 items, one for each reported SLA
\* type with monthly risk > 0 and for no other, by descending monthly risk
\* (equal risks in the order the types are reported in, so the list is
\* determined by sla_by_type), and each item's reduction is monthly risk x
\* 0.25 (first_response), 0.30 (resolution) or 0.40 (waiting) in whole euros.
C13_Advice ==
    HasSnapshot =>
        /\ AdviceListed
        /\ \A i \in 1..Len(ai_advice) :
            LET t == ai_advice[i].sla_type
                red == ai_advice[i].monthly_risk_reduction_est
            IN  /\ red.d = 1
                /\ 2 * Abs(100 * red.n * RiskOf(t).d - RulePct(t) * RiskOf(t).n)
                        <= 100 * RiskOf(t).d

\* resolution carries more risk than first_response and is listed before it;
\* waiting is reported without risk and has no item
C13_Witness ==
    /\ pc = "done"
    /\ Len(ai_advice) = 2
    /\ ai_advice[1].sla_type = "resolution"
    /\ ai_advice[2].sla_type = "first_response"
    /\ FGt(RiskOf("resolution"), RiskOf("first_response"))
    /\ "waiting" \in DOMAIN sla_by_type
    /\ RiskOf("waiting") = FZero

\* C13 as stated: each item's reduction equals monthly risk x the fraction.
C13_ExactReduction ==
    HasSnapshot =>
        /\ AdviceListed
        /\ \A i \in 1..Len(ai_advice) :
            LET t == ai_advice[i].sla_type
                red == ai_advice[i].monthly_risk_reduction_est
            IN  100 * red.n * RiskOf(t).d = RulePct(t) * RiskOf(t).n * red.d

(* -------------------------------- C14 ---------------------------------- *)
\* the last entry of the history log
LastStored == Stored(historyFile)[Len(Stored(historyFile))]

\* C14: when a run has completed, the last entry of the history log is the
\* metrics snapshot the run produced (the one it wrote to last_metrics.json),
\* with every field of it and each field unchanged.
C14_HistoryRoundTrip ==
    pc = "done" =>
        /\ Len(Stored(historyFile)) >= 1
        /\ DOMAIN LastStored = DOMAIN lastFile[1]
        /\ \A f \in DOMAIN lastFile[1] : LastStored[f] = lastFile[1][f]

(* -------------------------------- C15 ---------------------------------- *)
\* the canonical fields none of whose synonyms is a column of events.csv
FieldsMissing ==
    {f \in {"case_id", "timestamp", "event"} : Range(COLUMN_ALIASES[f]) \cap columns = {}}

\* the last request was refused before events.csv was written
Refused == response # <<>> /\ response.status = 403

\* C15: a run on a file that lacks a required column does nothing but fail:
\* it ends with an error that names the missing fields and the columns
\* present, the three metrics files are as the run found them, and the
\* endpoint stores no history entry for the tenant and counts no upload.
C15_SchemaErrorNoOutput ==
    (FieldsMissing # {} /\ ~Refused) =>
        /\ pc \in {"read", "failed", "responded"}
        /\ pc # "read" =>
            /\ stderr # <<>>
            /\ stderr.missing = FieldsMissing
            /\ stderr.found = columns
        /\ historyFile = startFiles.history
        /\ lastFile = startFiles.last
        /\ prevFile = startFiles.prev
        /\ tenants = startTenants
        /\ pc = "responded" => response.status = 500

\* a second upload lacks the timestamp column, after a first upload that
\* wrote the metrics files, and has been answered
C15_Witness ==
    /\ pc = "responded"
    /\ clock = 2
    /\ FieldsMissing = {"timestamp"}
    /\ lastFile # <<>>
    /\ Len(Stored(historyFile)) = 1
    /\ \E e \in Emails : tenants[e].uploads_this_month = 1

(* -------------------------------- C16 ---------------------------------- *)
\* the SLA types of the i-th last snapshot of the history log
TypesOfLast(i) ==
    DOMAIN Stored(historyFile)[Len(Stored(historyFile)) + 1 - i].sla_by_type

FieldOfLast(i, t, f) ==
    Stored(historyFile)[Len(Stored(historyFile)) + 1 - i].sla_by_type[t][f]

\* C16: the immediate trend has an entry for exactly the SLA types that both
\* of the two most recent snapshots of the history log report, none with
\* fewer than 2 snapshots; the entry is the compliance_pct and the monthly
\* risk of the most recent snapshot minus those of the one before; the
\* snapshot of the run carries this trend.
C16_ImmediateTrend ==
    HasSignals =>
        /\ DOMAIN sla_trend_by_type =
                (IF Len(Stored(historyFile)) >= 2
                 THEN TypesOfLast(1) \cap TypesOfLast(2) ELSE {})
        /\ \A t \in DOMAIN sla_trend_by_type :
            /\ sla_trend_by_type[t].compliance_delta_pp =
                    FSub(FieldOfLast(1, t, "compliance_pct"),
                         FieldOfLast(2, t, "compliance_pct"))
            /\ sla_trend_by_type[t].risk_delta_eur =
                    FSub(FieldOfLast(1, t, "monthly_risk_eur_est"),
                         FieldOfLast(2, t, "monthly_risk_eur_est"))
        /\ HasSnapshot => lastFile[1].sla_trend_by_type = sla_trend_by_type

\* a type the previous snapshot lacks is left out, next to a type whose
\* compliance fell and whose risk rose
C16_Witness ==
    /\ pc = "done"
    /\ Len(Stored(historyFile)) >= 2
    /\ "resolution" \in TypesOfLast(1) \ TypesOfLast(2)
    /\ "resolution" \notin DOMAIN sla_trend_by_type
    /\ "first_response" \in DOMAIN sla_trend_by_type
    /\ FLt(sla_trend_by_type["first_response"].compliance_delta_pp, FZero)
    /\ FGt(sla_trend_by_type["first_response"].risk_delta_eur, FZero)

(* -------------------------------- C17 ---------------------------------- *)
\* the runs that completed: each wrote its report, named after the run
Committed == pdfFiles

\* the run is over (and, for an upload, answered or about to be)
RunOver == pc \in {"done", "failed", "responded"}

\* C17: between runs last_metrics.json holds the snapshot of the most recent
\* run that completed, if any, and previous_metrics.json that of the completed
\* run before it, if any (so the two differ); a run that has rolled the
\* files compares itself with the snapshot of the last completed run.
C17_LastAndPrevious ==
    /\ RunOver =>
        /\ lastFile # <<>> <=> Committed # {}
        /\ lastFile # <<>> => lastFile[1].generated_at = MaxOf(Committed)
        /\ prevFile # <<>> <=> Cardinality(Committed) >= 2
        /\ prevFile # <<>> =>
                prevFile[1].generated_at = MaxOf(Committed \ {MaxOf(Committed)})
    /\ pc \in {"sla", "history", "signals", "save", "pdf"} =>
        /\ prevFile # <<>> <=> Committed # {}
        /\ prevFile # <<>> => prevFile[1].generated_at = MaxOf(Committed)

(* -------------------------------- C18 ---------------------------------- *)
\* the number of earlier runs of the tenant of this request that appended a
\* snapshot (each was recorded in the tenant's uploads by the endpoint)
OwnEarlier == Len(tenants[email].history)

\* C18: the history log a run appends to and computes its trend from holds
\* the snapshots of the same tenant only: after the append it has one entry
\* more than the tenant's earlier runs, a tenant's first run has no trend
\* entry, and no declining-trend signal fires before the tenant's third run.
C18_HistoryPerTenant ==
    HasSignals =>
        /\ Len(Stored(historyFile)) = OwnEarlier + 1
        /\ OwnEarlier = 0 => DOMAIN sla_trend_by_type = {}
        /\ OwnEarlier < 2 =>
                \A i \in 1..Len(upgrade_signals) :
                    upgrade_signals[i].type # "negatieve_trend"

(* -------------------------------- C19 ---------------------------------- *)
Saved(p) == runs[p].pc = "saved"

\* the entry of process p's run is in the stored history log
Kept(p) ==
    \E i \in 1..Len(Stored(historyFile)) :
        Stored(historyFile)[i] = run_entry(p, runs[p].csv)

\* C19: the read, the append and the write of the history log are separate
\* steps: once a process has saved, the log is exactly the list one of the
\* processes that saved holds (what it read, plus its own entry), whatever
\* another process wrote in between; so the log keeps the entry of a
\* process only if the list written last has it.
C19_SaveReplacesLog ==
    (\E p \in Procs : Saved(p)) =>
        \E p \in Procs :
            /\ Saved(p)
            /\ Stored(historyFile) = runs[p].history
            /\ Kept(p)
            /\ Len(Stored(historyFile)) <= Len(Stored(startFiles.history)) + 2

\* a lost update: both runs saved their list, the log the two found had one
\* entry, and the stored log has that entry and the entry of one run only
C19_Witness ==
    /\ \A p \in Procs : Saved(p)
    /\ Len(Stored(startFiles.history)) = 1
    /\ Len(Stored(historyFile)) = 2
    /\ Kept(2)
    /\ ~Kept(1)

(* -------------------------------- C20 ---------------------------------- *)
\* the ordered table of the claim
SlaTable ==
    <<[sla_type |-> "waiting", keywords |-> {"waiting"}],
      [sla_type |-> "resolution", keywords |-> {"resolved", "closed"}],
      [sla_type |-> "first_response",
       keywords |-> {"assigned", "created", "response", "triage"}]>>

\* row k of the table has a keyword that occurs in the label, whatever the
\* case of the label's letters
Hits(k, event) ==
    \E kw \in SlaTable[k].keywords : In(Chars[kw], lower(Chars[event]))

FirstMatch(event) ==
    IF \E k \in 1..3 : Hits(k, event)
    THEN SlaTable[MinOfSet({k \in 1..3 : Hits(k, event)})].sla_type
    ELSE "other"

HasSlaTypes == pc \in {"history", "signals", "save", "pdf", "done"}

\* C20: every step's SLA type is that of the first row of the table with a
\* keyword that occurs, in any case, inside the step's label, and other when
\* no row has one; it is one of the four types; sla_by_type reports no type
\* other.
C20_FirstMatch ==
    HasSlaTypes =>
        /\ \A i \in 1..Len(df) :
            /\ df[i].sla_type = FirstMatch(df[i].event)
            /\ df[i].sla_type \in {"first_response", "waiting", "resolution", "other"}
        /\ DOMAIN sla_by_type \subseteq {"first_response", "waiting", "resolution"}

\* a label with capitals and two keywords is typed by the earlier row of the
\* table, a keyword inside a longer word counts, and a step without keyword
\* is typed other and left out of the report
C20_Witness ==
    /\ pc = "done"
    /\ Len(df) = 2
    /\ df[1].event = "Waiting, resolved" /\ df[1].sla_type = "waiting"
    /\ df[2].event = "note" /\ df[2].sla_type = "other"
    /\ DOMAIN sla_by_type = {"waiting"}

(* -------------------------------- C21 ---------------------------------- *)
\* the steps of SLA type t that breach: duration > 1.2 x baseline
BreachingOfType(t) ==
    SelectSeq(df, LAMBDA r : r.sla_type = t
                             /\ 5 * r.duration_hours > 6 * baseline[r.event])

\* the monthly factor where extrapolation is enabled, 1 elsewhere
RiskScale ==
    IF eur_per_hour > 0 /\ FGe(period.hours, FInt(1))
    THEN FDiv(FInt(720), period.hours)
    ELSE FInt(1)

\* sum over the breaching steps of (duration - baseline), in hours
OverBaselineHours(t) ==
    Frac(SumSeq(MapSeq(BreachingOfType(t),
                       LAMBDA r : r.duration_hours - baseline[r.event])),
         HourUnits)

\* sum over the breaching steps of (duration - 1.2 x baseline) x 1.25, in
\* hours: (5 x duration - 6 x baseline) / 4
OverTargetHours(t) ==
    Frac(SumSeq(MapSeq(BreachingOfType(t),
                       LAMBDA r : 5 * r.duration_hours - 6 * baseline[r.event])),
         4 * HourUnits)

\* at most half a euro apart
Within50Cents(a, b) ==
    LET diff == FSub(a, b)
    IN  2 * Abs(diff.n) <= diff.d

\* C21: the risk of every reported SLA type is the sum over its breaching
\* steps of (duration - baseline) x rate, times the monthly factor when
\* extrapolation is enabled, rounded to a whole number of euros.
C21_RiskOverBaseline ==
    HasSla =>
        \A t \in DOMAIN sla_by_type :
            sla_by_type[t].monthly_risk_eur_est =
                Round0(FMul(FMul(OverBaselineHours(t), FInt(eur_per_hour)), RiskScale))

\* two steps of one type breach, with different baselines, and the risk is
\* scaled to a month
C21_Witness ==
    /\ pc = "done"
    /\ eur_per_hour > 0
    /\ "resolution" \in DOMAIN sla_by_type
    /\ Len(BreachingOfType("resolution")) = 2
    /\ BreachingOfType("resolution")[1].baseline_hours
            # BreachingOfType("resolution")[2].baseline_hours
    /\ FGt(RiskScale, FInt(1))
    /\ FGt(sla_by_type["resolution"].monthly_risk_eur_est, FZero)

\* C21 as stated: the risk of every reported SLA type is, to the euro, the
\* sum over its breaching steps of (duration - 1.2 x baseline) x rate x 1.25,
\* times the monthly factor when extrapolation is enabled.
C21_RiskOverTarget ==
    HasSla =>
        \A t \in DOMAIN sla_by_type :
            Within50Cents(sla_by_type[t].monthly_risk_eur_est,
                          FMul(FMul(OverTargetHours(t), FInt(eur_per_hour)), RiskScale))

(* -------------------------------- C22 ---------------------------------- *)
DelaysOfType(t) == Count(df, LAMBDA r : r.sla_type = t /\ r.is_delay)

\* C22: every step flagged is_delay is flagged sla_breach, and every
\* reported SLA type has at least as many breaches as delayed steps.
C22_DelayImpliesBreach ==
    HasSla =>
        /\ \A i \in 1..Len(df) : df[i].is_delay => df[i].sla_breach
        /\ \A t \in DOMAIN sla_by_type : sla_by_type[t].breaches >= DelaysOfType(t)

\* one step breaches without being a delay, another is a delay and breaches,
\* and the type has more breaches than delays
C22_Witness ==
    /\ pc = "done"
    /\ \E i, j \in 1..Len(df) :
        /\ df[i].sla_breach /\ ~df[i].is_delay
        /\ df[j].sla_breach /\ df[j].is_delay
        /\ df[i].sla_type = df[j].sla_type
        /\ df[i].sla_type \in DOMAIN sla_by_type
        /\ sla_by_type[df[i].sla_type].breaches > DelaysOfType(df[i].sla_type)

(* -------------------------------- C23 ---------------------------------- *)
AllAnswered == \A q \in Reqs : requests[q].pc = "responded"

\* the requests of tenant e that were answered with a report
Succeeded(e) ==
    {q \in Reqs : /\ requests[q].email = e
                  /\ requests[q].response # <<>>
                  /\ requests[q].response.status = 200}

\* C23: a tenant's uploads_this_month for the current month never exceeds
\* the monthly limit of the plan, also when requests overlap; when all
\* requests of a month are answered, the counter has grown by one for each
\* request answered with a report and by nothing else.
C23_CounterWithinLimit ==
    \A e \in Emails :
        /\ tenants[e].usage_month = month =>
                tenants[e].uploads_this_month <= BASIC_MONTHLY_UPLOAD_LIMIT
        /\ (AllAnswered /\ month = 1) =>
                tenants[e].uploads_this_month =
                    startTenants[e].uploads_this_month + Cardinality(Succeeded(e))

(* -------------------------------- C24 ---------------------------------- *)
\* the report file of that name
ReportNamed(name) == CHOOSE f \in pdfFiles : f.name = name

\* C24: the filename a request is answered with, and the one recorded in the
\* tenant's history entry of that request, is the report that the analyzer
\* run of the same request wrote, and that report was made from the rows
\* the request uploaded.
C24_OwnReport ==
    \A q \in Reqs :
        (requests[q].response # <<>> /\ requests[q].response.status = 200) =>
            /\ requests[q].response.filename = requests[q].pdf_name
            /\ \E f \in pdfFiles : f.name = requests[q].pdf_name
            /\ ReportNamed(requests[q].pdf_name).rows = requests[q].content
            /\ \E i \in 1..Len(tenants[requests[q].email].history) :
                    tenants[requests[q].email].history[i].pdf = requests[q].pdf_name

====
